---------------------------- MODULE Spec2Model ----------------------------
(***************************************************************************)
(* ArcHacks: the mini-SQL parser (src/_core.py, parse) and the field       *)
(* mapping editor (src/_envs.py, EZFieldMap).                               *)
(*                                                                         *)
(* A Python string is a sequence of one-character strings, so that the     *)
(* regular expressions and str methods of the source are modelled by what  *)
(* they do to the text.  The empty string and the empty list are both <<>>.*)
(***************************************************************************)
EXTENDS Integers, Sequences, FiniteSets, TLC

VARIABLES
    q,          \* parser: the clauses the query text was written from
    sql,        \* parser: the argument of parse(sql)
    TOC,        \* parser: TOC.contents.keys(), in the dict's iteration order
    r,          \* parser: what parse did: not called, returned, raised
    _mapping,   \* editor: what self._mapping.exportToString() returns
    _str,       \* editor: self._str
    call,       \* editor: the last method called, its arguments and result
    ncalls,     \* editor: number of methods called so far
    engine,     \* layer: the datasets arcpy holds, each with its fields
    layer,      \* layer: the parent of the field map, a MemoryLayer
    mx          \* max_in_list: its arguments and what it did

vars == <<q, sql, TOC, r, _mapping, _str, call, ncalls, engine, layer, mx>>
parseVars == <<q, sql, TOC, r>>
editorVars == <<_mapping, _str, call, ncalls>>
layerVars == <<engine, layer>>

-----------------------------------------------------------------------------
(* Bounds *)

\* the number of JOIN clauses of a generated query
MaxJoins == 2
\* the number of fields of a generated field mapping
MaxFields == 3
\* the number of editor methods called in one behaviour
MaxCalls == 2

-----------------------------------------------------------------------------
(* Characters and the str / re primitives the source uses *)

UpperChars == {"A","B","C","D","E","F","G","H","I","J","K","L","M",
               "N","O","P","Q","R","S","T","U","V","W","X","Y","Z"}
LowerChars == {"a","b","c","d","e","f","g","h","i","j","k","l","m",
               "n","o","p","q","r","s","t","u","v","w","x","y","z"}
DigitChars == {"0","1","2","3","4","5","6","7","8","9"}

\* \w of Python 2's re (no UNICODE flag)
IsWord(c) == c \in UpperChars \cup LowerChars \cup DigitChars \cup {"_"}

\* \s of Python's re, str.strip()'s default set
IsSpace(c) == c \in {" ", "\t", "\n", "\r", "\f"}

\* the case folding of a (?i) pattern
LowerOf ==
    [A |-> "a", B |-> "b", C |-> "c", D |-> "d", E |-> "e", F |-> "f", G |-> "g",
     H |-> "h", I |-> "i", J |-> "j", K |-> "k", L |-> "l", M |-> "m", N |-> "n",
     O |-> "o", P |-> "p", Q |-> "q", R |-> "r", S |-> "s", T |-> "t", U |-> "u",
     V |-> "v", W |-> "w", X |-> "x", Y |-> "y", Z |-> "z"]
Lower(c) == IF c \in UpperChars THEN LowerOf[c] ELSE c

Min(S) == CHOOSE x \in S : \A y \in S : x <= y
Max(S) == CHOOSE x \in S : \A y \in S : x >= y

\* s[i:] of Python, with i a 1-based position
From(s, i) == SubSeq(s, i, Len(s))

\* the literal lit matches s at position i, case-sensitively
At(s, i, lit) ==
    /\ i >= 1
    /\ i + Len(lit) - 1 <= Len(s)
    /\ \A k \in 1..Len(lit) : s[i + k - 1] = lit[k]

\* the literal lit matches s at position i under (?i)
AtI(s, i, lit) ==
    /\ i >= 1
    /\ i + Len(lit) - 1 <= Len(s)
    /\ \A k \in 1..Len(lit) : Lower(s[i + k - 1]) = Lower(lit[k])

\* the positions at which lit matches under (?i)
PosI(s, lit) == {i \in 1..Len(s) : AtI(s, i, lit)}

\* the position after the longest run of \w starting at i (= i when none)
WordEnd(s, i) == Min({j \in i..(Len(s) + 1) : j = Len(s) + 1 \/ ~IsWord(s[j])})

\* str.strip()
NonSpace(s) == {i \in 1..Len(s) : ~IsSpace(s[i])}
lstrip(s) == IF NonSpace(s) = {} THEN <<>> ELSE From(s, Min(NonSpace(s)))
rstrip(s) == IF NonSpace(s) = {} THEN <<>> ELSE SubSeq(s, 1, Max(NonSpace(s)))
strip(s) == rstrip(lstrip(s))

\* re.sub("\s+", " ", s)
RECURSIVE sub_ws(_)
sub_ws(s) ==
    LET sp == {i \in 1..Len(s) : IsSpace(s[i])}
    IN  IF sp = {} THEN s
        ELSE SubSeq(s, 1, Min(sp) - 1) \o <<" ">> \o sub_ws(lstrip(From(s, Min(sp))))

\* str.split(sep), sep not empty
RECURSIVE split(_, _)
split(s, sep) ==
    LET hits == {i \in 1..Len(s) : At(s, i, sep)}
    IN  IF hits = {} THEN <<s>>
        ELSE LET i == Min(hits)
             IN  <<SubSeq(s, 1, i - 1)>> \o split(From(s, i + Len(sep)), sep)

\* str.replace(old, new), old not empty
RECURSIVE replace(_, _, _)
replace(s, old, new) ==
    LET hits == {i \in 1..Len(s) : At(s, i, old)}
    IN  IF hits = {} THEN s
        ELSE LET i == Min(hits)
             IN  SubSeq(s, 1, i - 1) \o new \o replace(From(s, i + Len(old)), old, new)

\* re.sub("(?i)" + lit, "", s)
RECURSIVE sub_del(_, _)
sub_del(s, lit) ==
    LET hits == PosI(s, lit)
    IN  IF hits = {} THEN s
        ELSE LET i == Min(hits)
             IN  SubSeq(s, 1, i - 1) \o sub_del(From(s, i + Len(lit)), lit)

\* list.index(x): the first position holding x
index(li, x) == Min({i \in 1..Len(li) : li[i] = x})

\* Python's None, as a value no text equals
None == <<"None">>


\* sep.join(li)
RECURSIVE join(_, _)
join(li, sep) ==
    IF li = <<>> THEN <<>>
    ELSE IF Len(li) = 1 THEN li[1]
    ELSE li[1] \o sep \o join(Tail(li), sep)

\* list.remove(x), x in the list
remove(li, x) ==
    LET i == index(li, x) IN SubSeq(li, 1, i - 1) \o From(li, i + 1)

\* "." of a pattern matches every character of s[a..b] (no DOTALL flag)
Dots(s, a, b) == \A k \in a..b : s[k] # "\n"

-----------------------------------------------------------------------------
(* The patterns of parse *)

\* "select "
kwSelectSp == <<"s","e","l","e","c","t"," ">>
\* " from"
kwSpFrom == <<" ","f","r","o","m">>
\* "from "
kwFromSp == <<"f","r","o","m"," ">>
\* "join "
kwJoinSp == <<"j","o","i","n"," ">>
\* "on "
kwOnSp == <<"o","n"," ">>
\* "where "
kwWhereSp == <<"w","h","e","r","e"," ">>
\* " group"
kwSpGroup == <<" ","g","r","o","u","p">>
\* "group by "
kwGroupBySp == <<"g","r","o","u","p"," ","b","y"," ">>
\* " having"
kwSpHaving == <<" ","h","a","v","i","n","g">>
\* ", "
sepCommaSp == <<",", " ">>
\* " = "
sepEq == <<" ", "=", " ">>
\* "."
sepDot == <<".">>

\* what a raise and a return of parse leave the caller with
NotCalled == [status |-> "not called", value |-> <<>>, error |-> "", line |-> 0]
Returned(v) == [status |-> "returned", value |-> v, error |-> "", line |-> 0]
Raised(e, n) == [status |-> "raised", value |-> <<>>, error |-> e, line |-> n]

\* re.findall("(?i)select (.*) from", sql), cut to its first match: the
\* leftmost "select " that some " from" follows, (.*) running to the last one
findall_select(s) ==
    LET ends(i) == {j \in PosI(s, kwSpFrom) : j >= i + 7 /\ Dots(s, i + 7, j - 1)}
        starts == {i \in PosI(s, kwSelectSp) : ends(i) # {}}
    IN  IF starts = {} THEN <<>>
        ELSE LET i == Min(starts) IN <<SubSeq(s, i + 7, Max(ends(i)) - 1)>>

\* re.findall("(?i)from (\w+)\\b", sql), cut to its first match
findall_from(s) ==
    LET starts == {i \in PosI(s, kwFromSp) : WordEnd(s, i + 5) > i + 5}
    IN  IF starts = {} THEN <<>>
        ELSE LET i == Min(starts) IN <<SubSeq(s, i + 5, WordEnd(s, i + 5) - 1)>>

\* re.findall("(?i)join (\w+)\\b", sql), scanning from position i
RECURSIVE findall_join(_, _)
findall_join(s, i) ==
    LET starts == {k \in i..Len(s) : AtI(s, k, kwJoinSp) /\ WordEnd(s, k + 5) > k + 5}
    IN  IF starts = {} THEN <<>>
        ELSE LET k == Min(starts)
             IN  <<SubSeq(s, k + 5, WordEnd(s, k + 5) - 1)>>
                     \o findall_join(s, WordEnd(s, k + 5))

\* the position after a match of \w+\.\w+ at i, 0 when it does not match
KeyEnd(s, i) ==
    LET d == WordEnd(s, i)
    IN  IF d > i /\ At(s, d, sepDot) /\ WordEnd(s, d + 1) > d + 1
        THEN WordEnd(s, d + 1) ELSE 0

\* the position after a match of "(?i)on (\w+\.\w+ = \w+\.\w+)" at i, 0 when none
OnEnd(s, i) ==
    IF ~AtI(s, i, kwOnSp) THEN 0
    ELSE LET e == KeyEnd(s, i + 3)
         IN  IF e # 0 /\ At(s, e, sepEq) THEN KeyEnd(s, e + 3) ELSE 0

\* re.findall("(?i)on (\w+\.\w+ = \w+\.\w+)", sql), scanning from position i
RECURSIVE findall_on(_, _)
findall_on(s, i) ==
    LET starts == {k \in i..Len(s) : OnEnd(s, k) # 0}
    IN  IF starts = {} THEN <<>>
        ELSE LET k == Min(starts)
             IN  <<SubSeq(s, k + 3, OnEnd(s, k) - 1)>> \o findall_on(s, OnEnd(s, k))

\* re.findall("(?i)<kw>(.*<stop>)|<kw>(.*$)", sql), cut to its first match:
\* the two groups of the leftmost match, the one that took no part being ""
findall_clause(s, kw, stop) ==
    LET starts == {i \in PosI(s, kw) : Dots(s, i + Len(kw), Len(s))}
    IN  IF starts = {} THEN <<>>
        ELSE LET i == Min(starts)
                 b == i + Len(kw)
                 ends == {j \in PosI(s, stop) : j >= b}
             IN  IF ends # {}
                 THEN << <<SubSeq(s, b, Max(ends) + Len(stop) - 1), <<>> >> >>
                 ELSE << << <<>>, From(s, b) >> >>

\* layer_by_regex(regex): the first key of TOC.contents that the pattern
\* "(?i)" + regex is found in, None when the loop ends without a return
layer_by_regex(regex, toc) ==
    LET hits == {k \in 1..Len(toc) : PosI(toc[k], regex) # {}}
    IN  IF hits = {} THEN None ELSE toc[Min(hits)]

\* for jlyr in join_layers: join_layers[join_layers.index(jlyr)] = ...
\* from iteration k on, over the list as it stands
RECURSIVE resolve_layers(_, _, _)
resolve_layers(li, k, toc) ==
    IF k > Len(li) THEN li
    ELSE resolve_layers(
             [li EXCEPT ![index(li, li[k])] = layer_by_regex(li[k], toc)],
             k + 1, toc)

\* the alias of one side of an ON clause: join.split(".")[0]
lyr_of(key) == split(key, sepDot)[1]

\* rejoin: both sides of j with join.replace(lyr, layer_by_regex(lyr))
rejoin(j, toc) ==
    LET sides == split(j, sepEq)
    IN  [p \in 1..Len(sides) |->
            replace(sides[p], lyr_of(sides[p]), layer_by_regex(lyr_of(sides[p]), toc))]

\* str.replace(lyr, None) raises TypeError
rejoin_raises(j, toc) ==
    \E p \in 1..Len(split(j, sepEq)) :
        layer_by_regex(lyr_of(split(j, sepEq)[p]), toc) = None

\* for j in joins: ...; joins[joins.index(j)] = rejoin
\* (an entry already replaced is a list of two, which no matched text equals)
RECURSIVE resolve_joins(_, _, _)
resolve_joins(li, k, toc) ==
    IF k > Len(li) THEN li
    ELSE LET at == Min({i \in 1..Len(li) : Len(li[i]) = Len(li[k]) /\ li[i] = li[k]})
         IN  resolve_joins([li EXCEPT ![at] = rejoin(li[k], toc)], k + 1, toc)

\* the where value: where.remove(""); re.sub("(?i) group", "", where[0])
where_of(m) == sub_del(remove(m[1], <<>>)[1], kwSpGroup)

\* the group_by value: [] when nothing matched
group_by_of(m) ==
    IF m = <<>> THEN <<>> ELSE sub_del(remove(m[1], <<>>)[1], kwSpHaving)

\* r with the keys popped whose value is falsy
pop_empty(full) == [k \in {k \in DOMAIN full : full[k] # <<>>} |-> full[k]]

\* return_fields as it would be were a missing match skipped, the way the
\* missing GROUP BY is, instead of indexed
return_fields_unguarded(s) ==
    LET m == findall_select(s)
    IN  IF m = <<>> THEN [raised |-> FALSE, value |-> <<>>]
        ELSE [raised |-> FALSE, value |-> split(m[1], sepCommaSp)]

\* return_fields: re.findall(...)[0].split(", "), IndexError when no match
return_fields_of(s) ==
    LET m == findall_select(s)
    IN  IF m = <<>> THEN [raised |-> TRUE, value |-> <<>>]
        ELSE [raised |-> FALSE, value |-> split(m[1], sepCommaSp)]

\* where: re.findall(...)[0], IndexError when no match
where_step(s) ==
    LET m == findall_clause(s, kwWhereSp, kwSpGroup)
    IN  IF m = <<>> THEN [raised |-> TRUE, value |-> <<>>]
        ELSE [raised |-> FALSE, value |-> where_of(m)]

\* parse(sql), TOC being the module's table of contents
parse(sql0, toc) ==
    LET s == sub_ws(strip(sql0))
        return_fields == return_fields_of(s)
        sel_layer == findall_from(s)
        joins == findall_on(s, 1)
        where == where_step(s)
    IN  IF return_fields.raised THEN Raised("IndexError", 827)
        ELSE IF sel_layer = <<>> THEN Raised("IndexError", 829)
        ELSE IF \E k \in 1..Len(joins) : rejoin_raises(joins[k], toc)
        THEN Raised("TypeError", 842)
        ELSE IF where.raised THEN Raised("IndexError", 846)
        ELSE Returned(pop_empty(
                 [return_fields |-> return_fields.value,
                  sel_layer |-> sel_layer[1],
                  join_layers |-> resolve_layers(findall_join(s, 1), 1, toc),
                  joins |-> resolve_joins(joins, 1, toc),
                  where |-> where.value,
                  group_by |-> group_by_of(findall_clause(s, kwGroupBySp, kwSpHaving))]))

-----------------------------------------------------------------------------
(* The queries parse is called with: written clause by clause, as the     *)
(* sample query of the source is, in two spellings                         *)

tblT == <<"T">>
tblU == <<"U">>
tblZ == <<"Z">>
tblMemT == <<"m","e","m","_","T">>
\* "[T]": a table name that is no \w+ word
tblBracketT == <<"[","T","]">>
colA == <<"a">>
colB == <<"b">>
colId == <<"i","d">>
colTid == <<"t","i","d">>
colTId == <<"T","i","d">>
\* "a = 1"
predA1 == <<"a"," ","="," ","1">>
\* "b from c"
predFrom == <<"b"," ","f","r","o","m"," ","c">>
\* "a groupx = 1"
predGroupx == <<"a"," ","g","r","o","u","p","x"," ","="," ","1">>
\* "a HAVING b"
grpHaving == <<"a"," ","H","A","V","I","N","G"," ","b">>

\* JOIN tbl [ON l.lc = r.rc]: on is <<>> or <<l, lc, r, rc>>
JoinClauses ==
    { [tbl |-> tblU, on |-> <<tblT, colId, tblU, colTid>>],
      [tbl |-> tblU, on |-> <<tblT, colTId, tblU, colId>>],
      [tbl |-> tblZ, on |-> <<tblT, colId, tblZ, colId>>],
      [tbl |-> tblZ, on |-> <<>>] }

SeqsUpTo(S, n) == UNION {[1..k -> S] : k \in 0..n}

\* an absent clause is <<>>; JOIN clauses are written into the queries that
\* have a SELECT list and a table name after FROM
Queries ==
    {qq \in [style : {1, 2},
             fields : {<<>>, <<colA>>, <<colA, colB>>},
             from : {<<>>, tblT, tblBracketT},
             joins : SeqsUpTo(JoinClauses, MaxJoins),
             where : {<<>>, predA1, predFrom, predGroupx},
             group : {<<>>, colA, grpHaving}] :
        qq.joins # <<>> => (qq.fields # <<>> /\ qq.from = tblT)}

\* the keys of TOC.contents, in the orders a dict may yield them
Registries ==
    { <<tblMemT, tblU>>, <<tblMemT, tblT, tblU>>, <<tblT, tblMemT, tblU>> }

\* a keyword as spelling 1 (upper case) or 2 (lower case) writes it
KW(w, style) == IF style = 1 THEN w ELSE [i \in 1..Len(w) |-> Lower(w[i])]
\* the white space between two tokens: a blank, or a line break and indent
WS(style) == IF style = 1 THEN <<" ">> ELSE <<"\n", " ", " ">>

RenderJoin(j, style) ==
    WS(style) \o KW(<<"J","O","I","N">>, style) \o WS(style) \o j.tbl
    \o (IF j.on = <<>> THEN <<>>
        ELSE WS(style) \o KW(<<"O","N">>, style) \o <<" ">>
             \o j.on[1] \o sepDot \o j.on[2] \o sepEq
             \o j.on[3] \o sepDot \o j.on[4])

RECURSIVE RenderJoins(_, _)
RenderJoins(js, style) ==
    IF js = <<>> THEN <<>>
    ELSE RenderJoin(Head(js), style) \o RenderJoins(Tail(js), style)

\* the text of query qq
Render(qq) ==
    (IF qq.fields = <<>> THEN <<>>
     ELSE KW(<<"S","E","L","E","C","T">>, qq.style) \o WS(qq.style)
          \o join(qq.fields, sepCommaSp))
    \o (IF qq.from = <<>> THEN <<>>
        ELSE WS(qq.style) \o KW(<<"F","R","O","M">>, qq.style) \o WS(qq.style)
             \o qq.from)
    \o RenderJoins(qq.joins, qq.style)
    \o (IF qq.where = <<>> THEN <<>>
        ELSE WS(qq.style) \o KW(<<"W","H","E","R","E">>, qq.style) \o WS(qq.style)
             \o qq.where)
    \o (IF qq.group = <<>> THEN <<>>
        ELSE WS(qq.style) \o KW(<<"G","R","O","U","P">>, qq.style) \o <<" ">>
             \o KW(<<"B","Y">>, qq.style) \o WS(qq.style) \o qq.group)
    \o (IF qq.style = 1 THEN <<>> ELSE <<"\n">>)

-----------------------------------------------------------------------------
(* The parser as a state machine: one call of parse on one query *)

NoCall == [op |-> "none"]

\* the layer's and max_in_list's variables while another part runs
NoEngine == <<>>
NoLayer == [name |-> "", workspace |-> "", _joins |-> <<>>, joined |-> {}]
NoMax == [find_str |-> <<>>, in_list |-> <<>>, status |-> "none"]

ParseInit ==
    /\ q \in Queries
    /\ sql = Render(q)
    /\ TOC \in Registries
    /\ r = NotCalled
    /\ _mapping = <<>>
    /\ _str = <<>>
    /\ call = NoCall
    /\ ncalls = 0
    /\ engine = NoEngine
    /\ layer = NoLayer
    /\ mx = NoMax

Parse ==
    /\ r.status = "not called"
    /\ r' = parse(sql, TOC)
    /\ UNCHANGED <<q, sql, TOC>>
    /\ UNCHANGED editorVars
    /\ UNCHANGED <<layerVars, mx>>

ParseNext == Parse

SpecParse == ParseInit /\ [][ParseNext]_vars

-----------------------------------------------------------------------------
(* The field mapping editor, EZFieldMap of src/_envs.py *)

fldName == <<"N","a","m","e">>
fldNameExtra == <<"N","a","m","e","E","x","t","r","a">>
fldID == <<"I","D">>
fldNewName == <<"N","e","w","N","a","m","e">>
\* the alias of the field ID
fldParcelNumber == <<"P","a","r","c","e","l"," ","N","u","m","b","e","r">>

\* the fields a described table may have, and the names given on renaming
FieldNames == {fldName, fldNameExtra, fldID}
NewNames == {fldNewName, fldID}

\* the alias of a field: its name, unless it was given another one
alias_of(n) == IF n = fldID THEN fldParcelNumber ELSE n

\* one field map as exportToString writes it, its metadata shortened: the
\* field, its alias in double quotes, the merge rule and the input field
\*   Name "Name" Text ,First,#,fc,Name,-1
FieldMapStr(n) ==
    n \o <<" ", "\"">> \o alias_of(n) \o <<"\"", " ">>
      \o <<"T","e","x","t"," ",",","F","i","r","s","t",",","#",",","f","c",",">>
      \o n \o <<",","-","1">>

\* self._mapping.exportToString() for a table with the fields ns
exportToString(ns) == join([k \in 1..Len(ns) |-> FieldMapStr(ns[k])], <<";">>)

\* the field lists of the tables a field map is made for; a table may have
\* no field that addTable maps
FieldLists ==
    {ns \in SeqsUpTo(FieldNames, MaxFields) :
        \A i, j \in 1..Len(ns) : i # j => ns[i] # ns[j]}

\* as_str: the value of self._str once the property has been read
as_str(str, mapping) == IF str = <<>> THEN mapping ELSE str

\* as_list
as_list(str, mapping) == split(as_str(str, mapping), <<";">>)

\* the name current_order and drop read from a field map: m.split(" ")[0]
lead_name(m) == split(m, <<" ">>)[1]

\* current_order: (as_list.index(i), i.split(" ")[0]) for each i in as_list
current_order(str, mapping) ==
    LET li == as_list(str, mapping)
    IN  [k \in 1..Len(li) |-> <<index(li, li[k]) - 1, lead_name(li[k])>>]

\* drop(field_names): the new self._str, names being the argument
drop(str, mapping, names) ==
    LET kept(m) == lead_name(m) \notin names
    IN  join(SelectSeq(as_list(str, mapping), kept), <<";">>)

\* the pattern rename_field compiles from field_name: "$." and "$_" are
\* escaped to literals by the two re.sub calls, every other "." stays the
\* wildcard and every other "$" the end-of-string anchor
RECURSIVE regex_of(_)
regex_of(name) ==
    IF name = <<>> THEN <<>>
    ELSE IF At(name, 1, <<"$", ".">>) \/ At(name, 1, <<"$", "_">>)
    THEN <<[kind |-> "lit", c |-> "$"], [kind |-> "lit", c |-> name[2]]>>
             \o regex_of(From(name, 3))
    ELSE IF Head(name) = "." THEN <<[kind |-> "any", c |-> "."]>> \o regex_of(Tail(name))
    ELSE IF Head(name) = "$" THEN <<[kind |-> "end", c |-> "$"]>> \o regex_of(Tail(name))
    ELSE <<[kind |-> "lit", c |-> Head(name)]>> \o regex_of(Tail(name))

\* the position after a match of pattern pat[k..] at position i of s, 0 when
\* it does not match
RECURSIVE match_end(_, _, _, _)
match_end(s, i, pat, k) ==
    IF k > Len(pat) THEN i
    ELSE IF pat[k].kind = "end"
    THEN (IF i = Len(s) + 1 \/ (i = Len(s) /\ s[i] = "\n")
          THEN match_end(s, i, pat, k + 1) ELSE 0)
    ELSE IF i > Len(s) THEN 0
    ELSE IF pat[k].kind = "any"
    THEN (IF s[i] # "\n" THEN match_end(s, i + 1, pat, k + 1) ELSE 0)
    ELSE (IF s[i] = pat[k].c THEN match_end(s, i + 1, pat, k + 1) ELSE 0)

\* a match of the name alone, without the lookahead (?!,)
rename_match_any(s, i, pat) == match_end(s, i, pat, 1)

\* the position after a match of "{}(?!,)".format(regex_name) at i, 0 when none
rename_match(s, i, pat) ==
    LET e == match_end(s, i, pat, 1)
    IN  IF e # 0 /\ ~At(s, e, <<",">>) THEN e ELSE 0

\* re.sub(regex, new_name, s), scanning from position i (the pattern of a
\* field name matches at least one character)
RECURSIVE re_sub(_, _, _, _)
re_sub(s, i, pat, new_name) ==
    LET starts == {k \in i..Len(s) : rename_match(s, k, pat) > k}
    IN  IF starts = {} THEN From(s, i)
        ELSE LET k == Min(starts)
             IN  SubSeq(s, i, k - 1) \o new_name
                     \o re_sub(s, rename_match(s, k, pat), pat, new_name)

\* rename_field(field_name, new_name): the new self._str
rename_field(str, field_name, new_name) ==
    re_sub(str, 1, regex_of(field_name), new_name)

\* the positions of the double quotes of a field map
quotes(m) == {i \in 1..Len(m) : m[i] = "\""}

\* re.findall('"(.*)"', m): the text from the first double quote to the last
\* one, no match when m has fewer than two
findall_quoted(m) ==
    IF Cardinality(quotes(m)) < 2 THEN <<>>
    ELSE <<SubSeq(m, Min(quotes(m)) + 1, Max(quotes(m)) - 1)>>

\* field_names: re.findall('"(.*)"', n)[0] for each n in as_list, IndexError
\* when a field map has no quoted text
field_names(str, mapping) ==
    LET li == as_list(str, mapping)
    IN  IF \E k \in 1..Len(li) : findall_quoted(li[k]) = <<>>
        THEN [error |-> "IndexError", value |-> <<>>]
        ELSE [error |-> "none",
              value |-> [k \in 1..Len(li) |-> findall_quoted(li[k])[1]]]

\* field_count: len(self.current_order)
field_count(str, mapping) == Len(current_order(str, mapping))

\* the longest field name a shapefile keeps
SafeLen == 10

\* is_safe with no limit on the length of a name
is_safe_unchecked(str, mapping) ==
    LET names == field_names(str, mapping)
    IN  [error |-> names.error, value |-> TRUE]

\* is_safe: all([len(f) <= 10 for f in self.field_names])
is_safe(str, mapping) ==
    LET names == field_names(str, mapping)
    IN  IF names.error # "none" THEN [error |-> names.error, value |-> FALSE]
        ELSE [error |-> "none",
              value |-> \A k \in 1..Len(names.value) :
                            Len(names.value[k]) <= SafeLen]

\* an insert that puts x in front whatever the position
insert_front(li, i, x) == <<x>> \o li

\* list.insert(i, x), i a 0-based position that is not negative
insert(li, i, x) ==
    IF i >= Len(li) THEN Append(li, x)
    ELSE SubSeq(li, 1, i) \o <<x>> \o From(li, i + 1)

\* the loop of reorder from its k-th turn on:
\*   li.insert(new_order.index(n), self.as_list[n])
RECURSIVE reorder_loop(_, _, _, _)
reorder_loop(new_order, k, entries, li) ==
    IF k > Len(new_order) THEN li
    ELSE reorder_loop(new_order, k + 1, entries,
             insert(li, index(new_order, new_order[k]) - 1,
                    entries[new_order[k] + 1]))

\* reorder that takes a list of every length when drop is False
reorder_unguarded(str, mapping, new_order, drop_) ==
    LET entries == as_list(str, mapping)
    IN  IF \E k \in 1..Len(new_order) : new_order[k] >= Len(entries)
        THEN [error |-> "IndexError", _str |-> as_str(str, mapping)]
        ELSE [error |-> "none",
              _str |-> join(reorder_loop(new_order, 1, entries, <<>>), <<";">>)]

\* reorder(new_order, drop): the error it raises and the new self._str; the
\* reads of field_count and as_list store the exported text when self._str
\* is ""
reorder(str, mapping, new_order, drop_) ==
    LET entries == as_list(str, mapping)
    IN  IF ~drop_ /\ Len(new_order) # field_count(str, mapping)
        THEN [error |-> "AttributeError", _str |-> as_str(str, mapping)]
        ELSE IF \E k \in 1..Len(new_order) : new_order[k] >= Len(entries)
        THEN [error |-> "IndexError", _str |-> as_str(str, mapping)]
        ELSE [error |-> "none",
              _str |-> join(reorder_loop(new_order, 1, entries, <<>>), <<";">>)]

\* str.upper()
upper(s) ==
    [i \in 1..Len(s) |->
        IF s[i] \in LowerChars THEN CHOOSE u \in UpperChars : LowerOf[u] = s[i]
        ELSE s[i]]

\* the case rename_by_split gives a new name ("TITLE" is not drawn)
apply_case(name, case) ==
    IF case = "UPPER" THEN upper(name)
    ELSE IF case = "LOWER" THEN [i \in 1..Len(name) |-> Lower(name[i])]
    ELSE name

\* the loop of rename_by_split from its k-th name on
RECURSIVE rename_loop(_, _, _, _, _)
rename_loop(str, names, k, split_seq, case) ==
    IF k > Len(names) THEN str
    ELSE LET parts == split(names[k], split_seq)
             new_name == apply_case(parts[Len(parts)], case)
         IN  rename_loop(rename_field(str, names[k], new_name),
                         names, k + 1, split_seq, case)

\* rename_by_split(split_seq, case): the error it raises and the new self._str
rename_by_split(str, mapping, split_seq, case) ==
    LET names == field_names(str, mapping)
    IN  IF names.error # "none"
        THEN [error |-> names.error, _str |-> as_str(str, mapping)]
        ELSE [error |-> "none",
              _str |-> rename_loop(as_str(str, mapping), names.value, 1,
                                   split_seq, case)]

\* the arguments (new_order, drop) reorder is called with: the identity of
\* every length, other permutations, a list that names an index twice, and
\* shorter lists with drop=True
Identity(n) == [k \in 1..n |-> k - 1]
ReorderArgs ==
    {<<Identity(n), FALSE>> : n \in 0..MaxFields}
        \cup {<<<<1, 0>>, FALSE>>, <<<<2, 0, 1>>, FALSE>>, <<<<0, 1, 0>>, FALSE>>}
        \cup {<<<<>>, TRUE>>, <<<<1>>, TRUE>>, <<<<0, 0>>, TRUE>>}

\* the arguments rename_by_split is called with
SplitSeqs == {fldName}
Cases == {"", "UPPER"}

\* the parser's variables while the editor runs
NoQuery ==
    [style |-> 1, fields |-> <<>>, from |-> <<>>, joins |-> <<>>,
     where |-> <<>>, group |-> <<>>]

\* EZFieldMap.__init__, which ends by reading as_str
Init ==
    /\ \E ns \in FieldLists : _mapping = exportToString(ns)
    /\ _str = as_str(<<>>, _mapping)
    /\ call = [op |-> "__init__", error |-> "none"]
    /\ ncalls = 0
    /\ engine = NoEngine
    /\ layer = NoLayer
    /\ mx = NoMax
    /\ q = NoQuery
    /\ sql = <<>>
    /\ TOC = <<>>
    /\ r = NotCalled

\* an editing operation that calls one tool of arcpy
one_engine_call(eng) == [eng EXCEPT !.calls = @ + 1]

\* the calls drop, reorder, rename_field and rename_by_split make to arcpy:
\* none, the datasets stay as they are
no_engine_call(eng) == eng

Drop(names) ==
    /\ ncalls < MaxCalls
    /\ _str' = drop(_str, _mapping, names)
    /\ call' = [op |-> "drop", field_names |-> names,
                before |-> as_list(_str, _mapping), stored |-> _str,
                error |-> "none"]
    /\ ncalls' = ncalls + 1
    /\ engine' = no_engine_call(engine)
    /\ UNCHANGED _mapping
    /\ UNCHANGED <<parseVars, layer, mx>>

RenameField(field_name, new_name) ==
    /\ ncalls < MaxCalls
    /\ _str' = rename_field(_str, field_name, new_name)
    /\ call' = [op |-> "rename_field", field_name |-> field_name,
                new_name |-> new_name, before |-> as_list(_str, _mapping),
                stored |-> _str, error |-> "none"]
    /\ ncalls' = ncalls + 1
    /\ engine' = no_engine_call(engine)
    /\ UNCHANGED _mapping
    /\ UNCHANGED <<parseVars, layer, mx>>

Reorder(new_order, drop_) ==
    /\ ncalls < MaxCalls
    /\ LET res == reorder(_str, _mapping, new_order, drop_)
       IN  /\ _str' = res._str
           /\ call' = [op |-> "reorder", new_order |-> new_order,
                       drop |-> drop_, before |-> as_list(_str, _mapping),
                       stored |-> _str, error |-> res.error]
    /\ ncalls' = ncalls + 1
    /\ engine' = no_engine_call(engine)
    /\ UNCHANGED _mapping
    /\ UNCHANGED <<parseVars, layer, mx>>

RenameBySplit(split_seq, case) ==
    /\ ncalls < MaxCalls
    /\ LET res == rename_by_split(_str, _mapping, split_seq, case)
       IN  /\ _str' = res._str
           /\ call' = [op |-> "rename_by_split", split_seq |-> split_seq,
                       case |-> case, before |-> as_list(_str, _mapping),
                       stored |-> _str, error |-> res.error]
    /\ ncalls' = ncalls + 1
    /\ engine' = no_engine_call(engine)
    /\ UNCHANGED _mapping
    /\ UNCHANGED <<parseVars, layer, mx>>

\* reading the property current_order
CurrentOrder ==
    /\ ncalls < MaxCalls
    /\ _str' = as_str(_str, _mapping)
    /\ call' = [op |-> "current_order", before |-> as_list(_str, _mapping),
                stored |-> _str, error |-> "none",
                result |-> current_order(_str, _mapping)]
    /\ ncalls' = ncalls + 1
    /\ UNCHANGED _mapping
    /\ UNCHANGED <<parseVars, layerVars, mx>>

\* reading the property field_count
FieldCount ==
    /\ ncalls < MaxCalls
    /\ _str' = as_str(_str, _mapping)
    /\ call' = [op |-> "field_count", before |-> as_list(_str, _mapping),
                stored |-> _str, error |-> "none",
                result |-> field_count(_str, _mapping)]
    /\ ncalls' = ncalls + 1
    /\ UNCHANGED _mapping
    /\ UNCHANGED <<parseVars, layerVars, mx>>

IsSafe ==
    /\ ncalls < MaxCalls
    /\ _str' = as_str(_str, _mapping)
    /\ LET res == is_safe(_str, _mapping)
       IN  call' = [op |-> "is_safe", before |-> as_list(_str, _mapping),
                    stored |-> _str, error |-> res.error, result |-> res.value]
    /\ ncalls' = ncalls + 1
    /\ UNCHANGED _mapping
    /\ UNCHANGED <<parseVars, layerVars, mx>>

Next ==
    \/ \E names \in SUBSET FieldNames : Drop(names)
    \/ \E field_name \in FieldNames, new_name \in NewNames :
           RenameField(field_name, new_name)
    \/ \E args \in ReorderArgs : Reorder(args[1], args[2])
    \/ \E split_seq \in SplitSeqs, case \in Cases : RenameBySplit(split_seq, case)
    \/ CurrentOrder
    \/ FieldCount
    \/ IsSafe

Spec == Init /\ [][Next]_vars

-----------------------------------------------------------------------------
(* The field mapping editor on the fields of a joined table, whose names   *)
(* carry the table before ".", "$." or "$_"                                *)

fldT_ID == <<"T","_","I","D">>
fldTDotID == <<"T",".","I","D">>
fldTDollarDotID == <<"T","$",".","I","D">>
fldTDollarUnderID == <<"T","$","_","I","D">>

\* the fields of a layer after a join: qualified names, and a name of the
\* layer's own that differs from one of them in the separator only
QualifiedNames == {fldTDotID, fldTDollarDotID, fldTDollarUnderID}
JoinedNames == QualifiedNames \cup {fldT_ID}

\* the number of fields of a joined layer
MaxJoined == 2

JoinedLists ==
    {ns \in SeqsUpTo(JoinedNames, MaxJoined) :
        /\ ns # <<>>
        /\ \A i, j \in 1..Len(ns) : i # j => ns[i] # ns[j]}

\* EZFieldMap.__init__ for a joined layer
QualifiedInit ==
    /\ \E ns \in JoinedLists : _mapping = exportToString(ns)
    /\ _str = as_str(<<>>, _mapping)
    /\ call = [op |-> "__init__", error |-> "none"]
    /\ ncalls = 0
    /\ q = NoQuery
    /\ sql = <<>>
    /\ TOC = <<>>
    /\ r = NotCalled
    /\ engine = NoEngine
    /\ layer = NoLayer
    /\ mx = NoMax

\* a qualified field is renamed, to a new name or to the name it has
QualifiedNext ==
    \E field_name \in QualifiedNames :
        \E new_name \in {fldNewName, field_name} :
            RenameField(field_name, new_name)

SpecQualified == QualifiedInit /\ [][QualifiedNext]_vars

-----------------------------------------------------------------------------
(* MemoryLayer of src/_envs.py and the datasets arcpy keeps for it         *)

in_memory == "in_memory"

\* the names of the datasets: the layer, the tables to join, the output of
\* export
lyr == <<"l","y","r">>
outName == <<"o","u","t">>

\* tmp_name = self.parent.name + "_fmap"
tmp_name(name) == name \o <<"_","f","m","a","p">>

\* a field of a dataset
Field(n, a) == [name |-> n, alias |-> a]
names_of(fields) == [k \in 1..Len(fields) |-> fields[k].name]

\* one field map as exportToString writes it for the field f of a dataset
FieldMapOf(f) ==
    f.name \o <<" ", "\"">> \o f.alias \o <<"\"", " ">>
      \o <<"T","e","x","t"," ",",","F","i","r","s","t",",","#",",","f","c",",">>
      \o f.name \o <<",","-","1">>

\* FieldMappings().addTable(source) and exportToString() on it
describe_export(fields) ==
    join([k \in 1..Len(fields) |-> FieldMapOf(fields[k])], <<";">>)

\* the alias the conversion tool reads from a field map: the text between
\* its first two double quotes
alias_text(m) ==
    LET a == Min(quotes(m))
        b == Min(quotes(m) \ {a})
    IN  SubSeq(m, a + 1, b - 1)

\* the conversion tool takes a field mapping whose field maps each have a
\* name and a quoted alias and whose names differ; it raises on any other
valid_mapping(fm) ==
    LET li == split(fm, <<";">>)
    IN  /\ \A k \in 1..Len(li) :
               lead_name(li[k]) # <<>> /\ Cardinality(quotes(li[k])) >= 2
        /\ \A i, j \in 1..Len(li) :
               i # j => lead_name(li[i]) # lead_name(li[j])

\* the fields FeatureClassToFeatureClass_conversion writes under
\* field_mapping: one per field map, named by its leading name
project(fm) ==
    LET li == split(fm, <<";">>)
    IN  [k \in 1..Len(li) |-> Field(lead_name(li[k]), alias_text(li[k]))]

\* a call of a tool that changes data: counted, whether it raises or not
issue(eng) == [eng EXCEPT !.calls = @ + 1]

\* a tool writes the dataset ds (arcpy.env.overwriteOutput is True)
put(eng, ds, fields) ==
    [data |-> (ds :> fields) @@ eng.data, calls |-> eng.calls + 1]

\* Delete_management(ds)
Delete_management(eng, ds) ==
    [data |-> [d \in (DOMAIN eng.data) \ {ds} |-> eng.data[d]],
     calls |-> eng.calls + 1]

\* MemoryLayer.__init__(name) on an object that exists: the joins start
\* empty and the layer gets a new field map, made from the data
MemoryLayer__init__(eng, layer_) ==
    LET fresh == describe_export(eng.data[layer_.name])
    IN  [layer |-> [layer_ EXCEPT !._joins = <<>>],
         _mapping |-> fresh,
         _str |-> as_str(<<>>, fresh)]

\* EZFieldMap.update from its first call of arcpy on; fail is the call that
\* raises, 0 for none
update_tools(eng, layer_, str, mapping, fail) ==
    LET fm == as_str(str, mapping)
        tmp == tmp_name(layer_.name)
        e1 == put(eng, tmp, project(fm))
        e2 == put(e1, layer_.name, e1.data[tmp])
        e3 == Delete_management(e2, tmp)
        raised(e) == [error |-> "ExecuteError", engine |-> issue(e),
                      layer |-> layer_, _str |-> fm, _mapping |-> mapping]
        relinked == MemoryLayer__init__(e3, layer_)
    IN  IF fail = 1 \/ ~valid_mapping(fm) THEN raised(eng)
        ELSE IF fail = 2 THEN raised(e1)
        ELSE IF fail = 3 THEN raised(e2)
        ELSE [error |-> "none", engine |-> e3, layer |-> relinked.layer,
              _str |-> relinked._str, _mapping |-> relinked._mapping]

\* update without the test of the parent's workspace
update_unguarded(eng, layer_, str, mapping, fail) ==
    update_tools(eng, layer_, str, mapping, fail)

\* EZFieldMap.update
update(eng, layer_, str, mapping, fail) ==
    IF layer_.workspace # in_memory
    THEN [error |-> "IOError", engine |-> eng, layer |-> layer_,
          _str |-> str, _mapping |-> mapping]
    ELSE update_tools(eng, layer_, str, mapping, fail)

\* EZFieldMap.export(out_name)
export(eng, layer_, str, mapping, out_name, fail) ==
    LET fm == as_str(str, mapping)
    IN  IF fail = 1 \/ ~valid_mapping(fm)
        THEN [error |-> "ExecuteError", engine |-> issue(eng), _str |-> fm]
        ELSE [error |-> "none", engine |-> put(eng, out_name, project(fm)),
              _str |-> fm]

\* the name JoinField_management gives a joined field: a name the layer has
\* already gets the suffix _1
joined_name(n, names) == IF n \in names THEN n \o <<"_","1">> ELSE n

Range(f) == {f[x] : x \in DOMAIN f}

\* MemoryLayer.join(tbl, pkey, fkey), the keys being fields of the two
join_(eng, layer_, tbl, fail) ==
    LET current_joins == layer_._joins
        tbl_fields == names_of(eng.data[tbl])
        own == eng.data[layer_.name]
        added == [k \in 1..Len(eng.data[tbl]) |->
                     Field(joined_name(eng.data[tbl][k].name,
                                       Range(names_of(own))),
                           eng.data[tbl][k].alias)]
        e1 == put(eng, layer_.name, own \o added)
        relinked == MemoryLayer__init__(e1, layer_)
    IN  IF fail = 1
        THEN [error |-> "ExecuteError", engine |-> issue(eng),
              layer |-> layer_, _str |-> "kept", _mapping |-> "kept"]
        ELSE [error |-> "none", engine |-> e1,
              layer |-> [relinked.layer EXCEPT
                            !._joins = (tbl :> tbl_fields) @@ current_joins,
                            !.joined = @ \cup {tbl}],
              _str |-> relinked._str, _mapping |-> relinked._mapping]

\* dict.pop(key) of the copy j: the dict without the key
pop(j, key) == [k \in (DOMAIN j) \ {key} |-> j[k]]

\* MemoryLayer.drop_join(tbl) once j.pop(tbl) has given the table's fields
drop_join_fields(eng, layer_, str, mapping, tbl, tbl_fields, fail) ==
    LET j == pop(layer_._joins, tbl)
        staged == drop(str, mapping, Range(tbl_fields))
        u == update(eng, layer_, staged, mapping, fail)
    IN  IF u.error # "none"
        THEN [error |-> u.error, engine |-> u.engine, layer |-> layer_,
              _str |-> u._str, _mapping |-> mapping]
        ELSE [error |-> "none", engine |-> u.engine,
              layer |-> [u.layer EXCEPT !._joins = j, !.joined = @ \ {tbl}],
              _str |-> u._str, _mapping |-> u._mapping]

\* drop_join with j.pop(tbl, []) for j.pop(tbl)
drop_join_pop_default(eng, layer_, str, mapping, tbl, fail) ==
    drop_join_fields(eng, layer_, str, mapping, tbl,
                     IF tbl \in DOMAIN layer_._joins
                     THEN layer_._joins[tbl] ELSE <<>>, fail)

\* MemoryLayer.drop_join(tbl)
drop_join(eng, layer_, str, mapping, tbl, fail) ==
    IF tbl \notin DOMAIN layer_._joins
    THEN [error |-> "KeyError", engine |-> eng, layer |-> layer_,
          _str |-> str, _mapping |-> mapping]
    ELSE drop_join_fields(eng, layer_, str, mapping, tbl,
                          layer_._joins[tbl], fail)

\* DeleteField_management(name, f_name)
DeleteField_management(eng, ds, f_name) ==
    LET kept(f) == f.name # f_name
    IN  put(eng, ds, SelectSeq(eng.data[ds], kept))

\* MemoryLayer.add_field(f_name, f_type, calc=calc); fail names the tool
\* that raises. AddField_management on a name the data already has adds
\* nothing, whether it warns or raises
add_field(eng, layer_, f_name_arg, calc, fail) ==
    LET alias == f_name_arg
        f_name == replace(f_name_arg, <<" ">>, <<"_">>)
        own == eng.data[layer_.name]
        has(e) == f_name \in Range(names_of(e.data[layer_.name]))
        e1 == IF has(eng) \/ fail = "AddField" THEN issue(eng)
              ELSE put(eng, layer_.name, Append(own, Field(f_name, alias)))
        e2 == IF calc /\ fail # "AddField" THEN issue(e1) ELSE e1
        cleaned == IF has(e2)
                   THEN DeleteField_management(e2, layer_.name, f_name)
                   ELSE e2
    IN  IF fail = "AddField" \/ (calc /\ fail = "CalculateField")
        THEN [error |-> "ExecuteError", engine |-> cleaned]
        ELSE [error |-> "none", engine |-> e2]

\* the fields of the layer and of the tables when the layer is made
OwnFieldLists == {<<fldName>>, <<fldName, fldID>>}
TblFields == (tblT :> <<Field(fldNewName, fldNewName)>>)
                @@ (tblU :> <<Field(fldNameExtra, fldNameExtra)>>)
Tables == {tblT, tblU}

\* the inputs of the operations
Fails == 0..3
AddFieldArgs ==
    {<<fldID, FALSE, "none">>, <<fldID, TRUE, "CalculateField">>,
     <<fldParcelNumber, TRUE, "none">>,
     <<fldParcelNumber, TRUE, "CalculateField">>,
     <<fldParcelNumber, FALSE, "AddField">>}
OutNames == {outName, tmp_name(lyr)}

\* a layer made from data in memory, or a parent of another kind whose data
\* is on disk, and the field map made for it
LayerInit ==
    /\ \E ns \in OwnFieldLists, ws \in {in_memory, "C:/data.gdb"} :
           /\ engine = [data |-> (lyr :> [k \in 1..Len(ns) |->
                                            Field(ns[k], alias_of(ns[k]))])
                                     @@ TblFields,
                        calls |-> 0]
           /\ layer = [name |-> lyr, workspace |-> ws, _joins |-> <<>>,
                       joined |-> {}]
    /\ _mapping = describe_export(engine.data[lyr])
    /\ _str = as_str(<<>>, _mapping)
    /\ call = [op |-> "__init__", error |-> "none"]
    /\ ncalls = 0
    /\ mx = NoMax
    /\ q = NoQuery
    /\ sql = <<>>
    /\ TOC = <<>>
    /\ r = NotCalled

\* layer.join(tbl, pkey, fkey) for a table that is not joined at the time
Join(tbl, fail) ==
    /\ ncalls < MaxCalls
    /\ layer.workspace = in_memory
    /\ tbl \notin layer.joined
    /\ LET res == join_(engine, layer, tbl, fail)
       IN  /\ engine' = res.engine
           /\ layer' = res.layer
           /\ _str' = IF res.error = "none" THEN res._str ELSE _str
           /\ _mapping' = IF res.error = "none" THEN res._mapping ELSE _mapping
           /\ call' = [op |-> "join", tbl |-> tbl, error |-> res.error,
                       stored |-> _str]
    /\ ncalls' = ncalls + 1
    /\ UNCHANGED <<parseVars, mx>>

DropJoin(tbl, fail) ==
    /\ ncalls < MaxCalls
    /\ layer.workspace = in_memory
    /\ LET res == drop_join(engine, layer, _str, _mapping, tbl, fail)
       IN  /\ engine' = res.engine
           /\ layer' = res.layer
           /\ _str' = res._str
           /\ _mapping' = res._mapping
           /\ call' = [op |-> "drop_join", tbl |-> tbl, error |-> res.error,
                       stored |-> _str]
    /\ ncalls' = ncalls + 1
    /\ UNCHANGED <<parseVars, mx>>

AddField(f_name, calc, fail) ==
    /\ ncalls < MaxCalls
    /\ layer.workspace = in_memory
    /\ LET res == add_field(engine, layer, f_name, calc, fail)
       IN  /\ engine' = res.engine
           /\ call' = [op |-> "add_field", f_name |-> f_name,
                       error |-> res.error, stored |-> _str,
                       fields |-> Range(names_of(engine.data[layer.name]))]
    /\ ncalls' = ncalls + 1
    /\ UNCHANGED <<_str, _mapping, layer>>
    /\ UNCHANGED <<parseVars, mx>>

\* layer.fmap.update()
Update(fail) ==
    /\ ncalls < MaxCalls
    /\ LET res == update(engine, layer, _str, _mapping, fail)
       IN  /\ engine' = res.engine
           /\ layer' = res.layer
           /\ _str' = res._str
           /\ _mapping' = res._mapping
           /\ call' = [op |-> "update", error |-> res.error, stored |-> _str]
    /\ ncalls' = ncalls + 1
    /\ UNCHANGED <<parseVars, mx>>

\* layer.fmap.export(out_name)
Export(out_name, fail) ==
    /\ ncalls < MaxCalls
    /\ LET res == export(engine, layer, _str, _mapping, out_name, fail)
       IN  /\ engine' = res.engine
           /\ _str' = res._str
           /\ call' = [op |-> "export", out_name |-> out_name,
                       error |-> res.error, stored |-> _str]
    /\ ncalls' = ncalls + 1
    /\ UNCHANGED <<_mapping, layer>>
    /\ UNCHANGED <<parseVars, mx>>

LayerNext ==
    \/ \E tbl \in Tables, fail \in 0..1 : Join(tbl, fail)
    \/ \E tbl \in Tables, fail \in Fails : DropJoin(tbl, fail)
    \/ \E args \in AddFieldArgs : AddField(args[1], args[2], args[3])
    \/ \E fail \in Fails : Update(fail)
    \/ \E out_name \in OutNames, fail \in 0..1 : Export(out_name, fail)
    \/ Drop({fldID})
    \/ RenameField(fldName, fldNewName)
    \/ Reorder(<<1, 0>>, FALSE)
    \/ RenameBySplit(fldName, "")

SpecLayer == LayerInit /\ [][LayerNext]_vars

-----------------------------------------------------------------------------
(* max_in_list of src/_core.py *)

DigitStr == <<"0","1","2","3","4","5","6","7","8","9">>

\* int(c) of one digit
DigitVal(c) == CHOOSE n \in 0..9 : DigitStr[n + 1] = c

\* int(s) of a text of two digits
int(s) == 10 * DigitVal(s[1]) + DigitVal(s[2])

\* str(n) of a number below 100
str(n) ==
    IF n < 10 THEN <<DigitStr[n + 1]>>
    ELSE <<DigitStr[(n \div 10) + 1], DigitStr[(n % 10) + 1]>>

\* the default of the argument digits
digits == 2

\* re.findall("\d{}".format(digits), f) finds something: the format call
\* fills the braces, the pattern is "\d2", a digit and then the character 2
filt_re_found(f) ==
    \E i \in 1..(Len(f) - 1) : f[i] \in DigitChars /\ <<f[i + 1]>> = str(digits)

\* a filter for two digits in a row, the pattern "\d{2}"
two_digits_found(f) ==
    \E i \in 1..(Len(f) - 1) : f[i] \in DigitChars /\ f[i + 1] \in DigitChars

\* re.findall("\d{2}", i)[0]: the leftmost two digits in a row
first_two_digits(f) ==
    LET i == Min({k \in 1..(Len(f) - 1) :
                    f[k] \in DigitChars /\ f[k + 1] \in DigitChars})
    IN  SubSeq(f, i, i + 1)

\* find_str in i
str_in(t, f) == t = <<>> \/ \E i \in 1..Len(f) : At(f, i, t)

\* max_in_list(find_str, in_list), digits left at its default
max_in_list(find_str, in_list) ==
    LET filtered_list == SelectSeq(in_list, filt_re_found)
        picked == {k \in 1..Len(filtered_list) : str_in(find_str, filtered_list[k])}
        m == Max({int(first_two_digits(filtered_list[k])) : k \in picked})
        hits == {k \in 1..Len(in_list) : str_in(str(m), in_list[k])}
    IN  IF filtered_list = <<>>
        THEN [status |-> "raised", error |-> "AttributeError", value |-> <<>>]
        ELSE IF picked = {}
        THEN [status |-> "raised", error |-> "ValueError", value |-> <<>>]
        ELSE [status |-> "returned", error |-> "none",
              value |-> in_list[Min(hits)]]

fYear == <<"Y","e","a","r">>
fPop10 == <<"P","o","p","1","0">>
fPop20 == <<"P","o","p","2","0">>
fPop30 == <<"P","o","p","3","0">>
fAverage60 == <<"A","v","e","r","a","g","e","6","0">>
fPop12 == <<"P","o","p","1","2">>
fAvg22 == <<"A","v","g","2","2">>
fPop02 == <<"P","o","p","0","2">>
sPop == <<"P","o","p">>
sAvg == <<"A","v","g">>

\* the list of the docstring
DocFields == <<fYear, fPop10, fPop20, fPop30, fAverage60>>

\* the length of a generated list of field names
MaxList == 2

\* the lists and substrings max_in_list is called with
InLists ==
    {DocFields} \cup
        SeqsUpTo({fYear, fPop10, fPop30, fAverage60, fPop12, fAvg22, fPop02},
                 MaxList)
FindStrs == {<<>>, sPop, sAvg}

MaxInit ==
    /\ \E find_str \in FindStrs, in_list \in InLists :
           mx = [find_str |-> find_str, in_list |-> in_list, status |-> "none"]
    /\ q = NoQuery
    /\ sql = <<>>
    /\ TOC = <<>>
    /\ r = NotCalled
    /\ _mapping = <<>>
    /\ _str = <<>>
    /\ call = NoCall
    /\ ncalls = 0
    /\ engine = NoEngine
    /\ layer = NoLayer

MaxInList ==
    /\ mx.status = "none"
    /\ LET res == max_in_list(mx.find_str, mx.in_list)
       IN  mx' = [find_str |-> mx.find_str, in_list |-> mx.in_list,
                  status |-> res.status, error |-> res.error,
                  value |-> res.value]
    /\ UNCHANGED <<parseVars, editorVars, layerVars>>

MaxNext == MaxInList

SpecMax == MaxInit /\ [][MaxNext]_vars

-----------------------------------------------------------------------------
(* Properties of MemoryLayer and of update and export *)

EditorMutators == {"drop", "reorder", "rename_field", "rename_by_split"}
FieldMapOps == EditorMutators \cup {"update", "export"}

\* C24: reorder, drop, rename_field and rename_by_split change only the
\* serialized string: they issue no call to the external engine and leave
\* its data as it is; of the field map's operations only update and export
\* change the engine's data.
C24_MutatorsLeaveEngine ==
    [][(ncalls' = ncalls + 1) =>
          /\ (call'.op \in EditorMutators) =>
                 (engine' = engine /\ layer' = layer /\ _mapping' = _mapping)
          /\ (call'.op \in FieldMapOps /\ engine' # engine) =>
                 call'.op \in {"update", "export"}]_vars

\* an editing operation has staged a change on a layer whose data the
\* engine has written before
C24_Witness ==
    /\ call.op \in EditorMutators
    /\ engine.calls > 0
    /\ _str # _mapping
    /\ _mapping = describe_export(engine.data[layer.name])

\* C26: drop_join(tbl) for a table that is not registered in the joins
\* raises a not-found error (KeyError), issues no call to the engine and
\* leaves the joins registry and the staged field mapping unchanged.
C26_DropJoinUnregistered ==
    [][(/\ ncalls' = ncalls + 1
        /\ call'.op = "drop_join"
        /\ call'.tbl \notin DOMAIN layer._joins) =>
          /\ call'.error = "KeyError"
          /\ engine' = engine
          /\ layer'._joins = layer._joins
          /\ _str' = _str
          /\ _mapping' = _mapping]_vars

\* drop_join has raised KeyError for one table while another is registered
C26_Witness ==
    /\ call.op = "drop_join"
    /\ call.error = "KeyError"
    /\ call.tbl \notin DOMAIN layer._joins
    /\ DOMAIN layer._joins # {}

\* C28: after any sequence of join, drop_join and fmap.update the joins
\* registry has a key for exactly the tables joined by join and not since
\* removed by drop_join.
C28_RegistryMatchesJoins ==
    (layer.workspace = in_memory) => DOMAIN layer._joins = layer.joined

\* C29: when add_field fails, the layer's set of fields afterwards equals
\* its set of fields before the call.
C29_FailedAddFieldKeepsFields ==
    (call.op = "add_field" /\ call.error # "none") =>
        Range(names_of(engine.data[layer.name])) = call.fields

\* C30: update on a field map whose parent data is not in memory raises
\* before any engine call and leaves the staged mapping unchanged; after a
\* successful update the staged mapping equals a fresh description of the
\* overwritten data and the dataset <name>_fmap no longer exists.
C30_UpdateGuardAndRefresh ==
    /\ [][(/\ ncalls' = ncalls + 1
           /\ call'.op = "update"
           /\ layer.workspace # in_memory) =>
             /\ call'.error = "IOError"
             /\ engine' = engine
             /\ _str' = _str
             /\ _mapping' = _mapping]_vars
    /\ [](((call.op = "update" /\ call.error = "none")) =>
             /\ _str = describe_export(engine.data[layer.name])
             /\ _mapping = _str
             /\ tmp_name(layer.name) \notin DOMAIN engine.data)

\* a successful update has consumed staged edits
C30_Witness ==
    /\ call.op = "update"
    /\ call.error = "none"
    /\ call.stored # _str
    /\ call.stored # <<>>
    /\ engine.calls = 3

\* update has raised IOError on data that is not in memory
C30_WitnessNotInMemory ==
    /\ call.op = "update"
    /\ call.error = "IOError"
    /\ layer.workspace # in_memory
    /\ call.stored # _mapping

-----------------------------------------------------------------------------
(* Properties of max_in_list *)

\* the names of in_list that hold find_str and a number of two digits
Candidates(find_str, in_list) ==
    {k \in 1..Len(in_list) :
        str_in(find_str, in_list[k]) /\ two_digits_found(in_list[k])}

\* C25: max_in_list(find_str, in_list) returns the name in in_list that
\* holds find_str and the largest 2-digit number: for the fields "Year",
\* "Pop10", "Pop20", "Pop30", "Average60" it returns "Pop30" for "Pop" and
\* "Average60" for "".
C25_MaxInListReturnsLargest ==
    (mx.status # "none" /\ Candidates(mx.find_str, mx.in_list) # {}) =>
        /\ mx.status = "returned"
        /\ \E k \in Candidates(mx.find_str, mx.in_list) :
               /\ mx.value = mx.in_list[k]
               /\ \A j \in Candidates(mx.find_str, mx.in_list) :
                      int(first_two_digits(mx.in_list[j]))
                          <= int(first_two_digits(mx.in_list[k]))
        /\ (mx.in_list = DocFields /\ mx.find_str = sPop) => mx.value = fPop30
        /\ (mx.in_list = DocFields /\ mx.find_str = <<>>) => mx.value = fAverage60

-----------------------------------------------------------------------------
(* Properties of the field mapping editor *)

\* a is b with some of its elements left out
RECURSIVE IsSubseq(_, _)
IsSubseq(a, b) ==
    IF a = <<>> THEN TRUE
    ELSE IF b = <<>> THEN FALSE
    ELSE IF Head(a) = Head(b) THEN IsSubseq(Tail(a), Tail(b))
    ELSE IsSubseq(a, Tail(b))

\* text s holds text t somewhere
Contains(s, t) == \E i \in 1..Len(s) : At(s, i, t)

\* C1: after drop(names) the list current_order returns has no entry whose
\* field name is in names, and the entries it has are in the relative order
\* they had before the drop.
C1_DropThenCurrentOrder ==
    call.op = "drop" =>
        LET after == current_order(_str, _mapping)
            names_after == [k \in 1..Len(after) |-> after[k][2]]
            names_before == [k \in 1..Len(call.before) |-> lead_name(call.before[k])]
        IN  /\ \A k \in 1..Len(names_after) : names_after[k] \notin call.field_names
            /\ IsSubseq(names_after, names_before)

\* C2: rename_field(old, new) leaves every entry as it was whose field name
\* is not old but holds old as a prefix or substring: renaming "Name" leaves
\* the entry of "NameExtra" alone.
C2_RenameLeavesLongerNames ==
    call.op = "rename_field" =>
        LET after == as_list(_str, _mapping)
        IN  \A k \in 1..Len(call.before) :
                ( /\ \E m \in 1..Len(call.before) :
                         lead_name(call.before[m]) = call.field_name
                  /\ lead_name(call.before[k]) # call.field_name
                  /\ Contains(lead_name(call.before[k]), call.field_name) )
                => (k <= Len(after) /\ after[k] = call.before[k])

\* the entries of the new order, taken from the entries before the call
Selected(new_order, entries) ==
    [k \in 1..Len(new_order) |-> entries[new_order[k] + 1]]

\* C11: when reorder accepts a list new_order of valid entry indices, the new
\* serialized string is the entries at those indices joined by ";" in the
\* order new_order gives; with drop=True the indices not named are dropped.
C11_ReorderSelectsInOrder ==
    (call.op = "reorder" /\ call.error = "none") =>
        _str = join(Selected(call.new_order, call.before), <<";">>)

C13_IdentityReorderKeeps ==
    ( /\ call.op = "reorder"
      /\ call.new_order = Identity(Len(call.before)) ) =>
        /\ call.error = "none"
        /\ _str = as_str(call.stored, _mapping)
        /\ _str = join(call.before, <<";">>)

C13_Witness ==
    /\ call.op = "reorder"
    /\ Len(call.before) >= 2
    /\ call.new_order = Identity(Len(call.before))
    /\ call.error = "none"
    /\ _str # <<>>

\* the name parsed from an entry: the text inside its first pair of double
\* quotes, <<>> in a one-element list; <<>> when the entry has no such pair
FirstQuoted(m) ==
    LET qs == quotes(m)
    IN  IF Cardinality(qs) < 2 THEN <<>>
        ELSE LET a == Min(qs)
                 b == Min(qs \ {a})
             IN  <<SubSeq(m, a + 1, b - 1)>>

WellFormed(m) == FirstQuoted(m) # <<>>

C15_IsSafeOfEmptyMapping ==
    (call.op = "is_safe" /\ call.stored = <<>>) =>
        (call.error = "none" /\ call.result = TRUE)

\* C16: constructing a field map for a source with zero fields fails with a
\* not-found error: no field map object is made from an empty export.
C16_ZeroFieldsNotConstructed ==
    (call.op = "__init__" /\ _mapping = exportToString(<<>>)) =>
        call.error # "none"

\* C17: when an entry has no double-quoted name, each operation that needs a
\* name (current_order, rename_field, rename_by_split, drop) raises a parse
\* error when it is called.
C17_MalformedEntryRaises ==
    ( /\ call.op \in {"current_order", "rename_field", "rename_by_split", "drop"}
      /\ \E k \in 1..Len(call.before) : ~WellFormed(call.before[k]) ) =>
        call.error # "none"

\* C18: for a mapping of n entries current_order returns n pairs in entry
\* order, the i-th being (i, name of the i-th entry), the name being the text
\* inside the first pair of double quotes of the entry, also when two entries
\* are textually the same.
C18_CurrentOrderPairs ==
    ( /\ call.op = "current_order"
      /\ \A k \in 1..Len(call.before) : WellFormed(call.before[k]) ) =>
        /\ Len(call.result) = Len(call.before)
        /\ \A k \in 1..Len(call.before) :
               call.result[k] = <<k - 1, FirstQuoted(call.before[k])[1]>>

\* C19: current_order, field_count and is_safe are pure: in every state
\* reached by reorder, drop and rename calls, each of them leaves the stored
\* string, what str(fieldmap) returns, unchanged.
C19_ReadsArePure ==
    call.op \in {"current_order", "field_count", "is_safe"} =>
        _str = call.stored

\* the text s with every occurrence of old that no comma follows replaced by
\* new, scanning from the left
RECURSIVE LitSub(_, _, _)
LitSub(s, old, new) ==
    LET hits == {i \in 1..Len(s) :
                    At(s, i, old) /\ ~At(s, i + Len(old), <<",">>)}
    IN  IF hits = {} THEN s
        ELSE SubSeq(s, 1, Min(hits) - 1) \o new
                 \o LitSub(From(s, Min(hits) + Len(old)), old, new)

\* the occurrences of old in s that a comma follows
BeforeComma(s, old) ==
    {i \in 1..Len(s) : At(s, i, old) /\ At(s, i + Len(old), <<",">>)}

\* C20: rename_field(old, new) replaces by new every occurrence of old in the
\* serialized string that no comma follows at once, and leaves every
\* occurrence that a comma follows (the input field of the merge rule).
C20_RenameSkipsBeforeComma ==
    call.op = "rename_field" =>
        _str = LitSub(call.stored, call.field_name, call.new_name)

C20_Witness ==
    /\ call.op = "rename_field"
    /\ BeforeComma(call.stored, call.field_name) # {}
    /\ _str # call.stored
    /\ Cardinality(BeforeComma(_str, call.field_name))
           >= Cardinality(BeforeComma(call.stored, call.field_name))

\* the field name has a table before ".", "$." or "$_"
Qualified(name) ==
    \E i \in 1..Len(name) :
        At(name, i, <<".">>) \/ At(name, i, <<"$", ".">>) \/ At(name, i, <<"$", "_">>)

\* C21: rename_field matches a qualified old name literally: only text equal
\* to the old name, character for character, is replaced, and no character
\* of the old name acts as a wildcard or an anchor.
C21_QualifiedNameLiteral ==
    (call.op = "rename_field" /\ Qualified(call.field_name)) =>
        /\ _str = LitSub(call.stored, call.field_name, call.new_name)
        /\ \A k \in 1..Len(call.before) :
               ~Contains(call.before[k], call.field_name)
                   => as_list(_str, _mapping)[k] = call.before[k]

\* C22: rename_field(a, b) with a = b leaves the serialized mapping equal to
\* its input, for every mapping and every field name a.
C22_RenameToItself ==
    (call.op = "rename_field" /\ call.field_name = call.new_name) =>
        _str = call.stored

\* the field names field_names reads from a list of entries
QuotedNames(entries) == [k \in 1..Len(entries) |-> FirstQuoted(entries[k])[1]]

\* C23: after rename_by_split(seq, case) every field name is the tail of its
\* former name after the last occurrence of seq (the whole former name when
\* seq does not occur in it) in the case asked for; renaming one field does
\* not change the outcome for another field.
C23_RenameBySplitTails ==
    ( /\ call.op = "rename_by_split"
      /\ call.error = "none" ) =>
        LET former == QuotedNames(call.before)
            after == as_list(_str, _mapping)
            tail(n) == split(n, call.split_seq)[Len(split(n, call.split_seq))]
        IN  /\ Len(after) = Len(former)
            /\ \A k \in 1..Len(former) :
                   /\ WellFormed(after[k])
                   /\ FirstQuoted(after[k])[1] = apply_case(tail(former[k]), call.case)

\* a and b hold the same entries, each as many times
IsPermutation(a, b) ==
    /\ Len(a) = Len(b)
    /\ \A k \in 1..Len(a) :
           Cardinality({i \in 1..Len(a) : a[i] = a[k]})
               = Cardinality({i \in 1..Len(b) : b[i] = a[k]})

\* C27: a reorder that succeeds with drop=False neither drops nor duplicates
\* a field: for every new_order of valid indices whose length is the field
\* count, the entries after the call are a permutation of those before.
C27_ReorderPermutes ==
    ( /\ call.op = "reorder"
      /\ ~call.drop
      /\ call.error = "none"
      /\ Len(call.new_order) = Len(call.before) ) =>
        IsPermutation(as_list(_str, _mapping), call.before)

-----------------------------------------------------------------------------
(* Properties of parse *)

\* the key of directive d, <<>> when d has no such key
Get(d, key) == IF key \in DOMAIN d THEN d[key] ELSE <<>>

HasOn(j) == j.on # <<>>

\* text s holds text t somewhere, in any letter case
ContainsI(s, t) == \E i \in 1..Len(s) : AtI(s, i, t)

\* no registered layer name holds the token
Unregistered(tok) == \A k \in 1..Len(TOC) : ~ContainsI(TOC[k], tok)

\* the name a table alias stands for: the first registered name holding it,
\* the alias itself when there is none
Resolve(tok) ==
    IF Unregistered(tok) THEN tok
    ELSE TOC[Min({k \in 1..Len(TOC) : ContainsI(TOC[k], tok)})]

\* C3: a query with a select ... from clause is parsed without an error
\* whichever of JOIN, ON, WHERE and GROUP BY it lacks, and the directive has
\* no key for a clause the query lacks.
C3_AbsentClausesOmitted ==
    (r.status # "not called" /\ q.fields # <<>> /\ q.from # <<>>) =>
        /\ r.status = "returned"
        /\ (q.joins = <<>> => "join_layers" \notin DOMAIN r.value)
        /\ (SelectSeq(q.joins, HasOn) = <<>> => "joins" \notin DOMAIN r.value)
        /\ (q.where = <<>> => "where" \notin DOMAIN r.value)
        /\ (q.group = <<>> => "group_by" \notin DOMAIN r.value)

\* C4: in a directive parse returns, joins has one pair per ON clause, in
\* the order of the clauses, the pair of "on L.c = R.d" being
\* [Resolve(L).c, Resolve(R).d]: the aliases replaced, the columns as written.
C4_JoinsAreResolvedPairs ==
    r.status = "returned" =>
        LET ons == SelectSeq(q.joins, HasOn)
            got == Get(r.value, "joins")
        IN  /\ Len(got) = Len(ons)
            /\ \A k \in 1..Len(ons) :
                   got[k] = << Resolve(ons[k].on[1]) \o sepDot \o ons[k].on[2],
                               Resolve(ons[k].on[3]) \o sepDot \o ons[k].on[4] >>

\* C5: SELECT e1, ..., en FROM T WHERE p, with no JOIN and no GROUP BY,
\* yields exactly return_fields = [e1, ..., en], the source layer T and the
\* where predicate p.
C5_SelectFromWhere ==
    ( /\ r.status # "not called"
      /\ q.fields # <<>> /\ q.from = tblT /\ q.where # <<>>
      /\ q.joins = <<>> /\ q.group = <<>> )
    => r = Returned([return_fields |-> q.fields, sel_layer |-> q.from,
                     where |-> q.where])

\* C6: a token after "join " that no registered layer name holds does not
\* make parse fail, and its join_layers entry is the token as written.
C6_UnresolvedJoinLayerPassesThrough ==
    \A k \in 1..Len(q.joins) :
        Unregistered(q.joins[k].tbl) =>
            /\ ~(r.status = "raised" /\ r.line \in 830..834)
            /\ r.status = "returned" =>
                   Get(r.value, "join_layers")[k] = q.joins[k].tbl

\* C7: layer-name resolution never makes parse raise: with an ON clause
\* whose alias no registered layer name holds, parse raises nowhere in its
\* resolution of names and the directive it returns has the alias as written.
C7_ResolutionNeverRaises ==
    \A k \in 1..Len(q.joins) :
        ( /\ r.status # "not called"
          /\ HasOn(q.joins[k])
          /\ (Unregistered(q.joins[k].on[1]) \/ Unregistered(q.joins[k].on[3])) )
        => /\ ~(r.status = "raised" /\ r.line \in 830..844)
           /\ r.status = "returned" =>
                  \E n \in 1..Len(Get(r.value, "joins")) :
                      Get(r.value, "joins")[n] =
                          << Resolve(q.joins[k].on[1]) \o sepDot \o q.joins[k].on[2],
                             Resolve(q.joins[k].on[3]) \o sepDot \o q.joins[k].on[4] >>

\* C8: return_fields is the text between "select " and the first " from"
\* after it, split on ", ": a later " from" does not extend it.
C8_ReturnFieldsStopAtFirstFrom ==
    r.status = "returned" =>
        LET s == sub_ws(strip(sql))
            i == Min(PosI(s, kwSelectSp))
            j == Min({n \in PosI(s, kwSpFrom) : n >= i + 7})
        IN  r.value.return_fields = split(SubSeq(s, i + 7, j - 1), sepCommaSp)

\* C9: the where predicate is the text after "where " up to the " group"
\* marker, or to the end of the query when there is none; nothing but that
\* marker is taken out of it.  (The marker read as the first or as the last
\* " group" after "where ".)
C9_WhereIsTextUpToGroup ==
    (r.status = "returned" /\ q.where # <<>>) =>
        LET s == sub_ws(strip(sql))
            b == Min(PosI(s, kwWhereSp)) + 6
            g == {n \in PosI(s, kwSpGroup) : n >= b}
        IN  IF g = {} THEN Get(r.value, "where") = From(s, b)
            ELSE Get(r.value, "where") \in
                     {SubSeq(s, b, Min(g) - 1), SubSeq(s, b, Max(g) - 1)}

\* the query text has "select", white space, some text, white space, "from"
HasSelectFrom(s) ==
    \E i \in PosI(s, <<"s","e","l","e","c","t">>) :
        \E j \in PosI(s, <<"f","r","o","m">>) :
            /\ i + 7 < j - 1
            /\ IsSpace(s[i + 6])
            /\ \E n \in (i + 7)..(j - 2) : ~IsSpace(s[n])
            /\ IsSpace(s[j - 1])

\* C10: parse of a text in which no select ... from can be found (any text
\* without the word FROM among them) raises at once, at its first statement
\* that reads the text, and returns no directive.
C10_NoSelectFromRaises ==
    (r.status # "not called" /\ ~HasSelectFrom(sql)) =>
        /\ r.status = "raised"
        /\ r.line = 827
        /\ r.value = <<>>

\* parse was called on a SELECT without the word FROM anywhere, and raised
C10_Witness ==
    /\ q.fields # <<>>
    /\ PosI(sql, <<"f","r","o","m">>) = {}
    /\ r.status = "raised"

=============================================================================
